---- MODULE Spec2Model ----
(***************************************************************************)
(* Model of the unswap crate: UnswapArray<T> (src/src/lib.rs) on top of    *)
(* the Linux page provider UnixImpl (src/src/impl_unix.rs).                *)
(*                                                                         *)
(* usize is modelled as a WordBits-bit unsigned integer, isize as its      *)
(* signed counterpart; the page size and the masks are the program's own.  *)
(* The process' address space is a row of NumVPages page frames; mmap may  *)
(* return any free, page-aligned range of them or MAP_FAILED; mlock may    *)
(* succeed or fail.  One thread of control calls the crate: pc is its      *)
(* position (inside UnswapArray::new, or between calls).  A panic ends the *)
(* thread's calls; unwinding can still drop the containers it owns.        *)
(*                                                                         *)
(* Ghost state: reservedFor[id] is the (address, size) pair the id-th      *)
(* successful reservation of new obtained, releaseLog[id] the arguments of *)
(* the free_pages calls made for it, life[id] where that container is in   *)
(* its life, ret the Result of the latest alloc_pages call with the OS     *)
(* calls it made.                                                          *)
(***************************************************************************)
EXTENDS Integers, Sequences, FiniteSets, TLC

VARIABLES pc, frame, arrays, mapped, locked, mem, ret, rawHeld,
          nextId, reservedFor, releaseLog, life

vars == <<pc, frame, arrays, mapped, locked, mem, ret, rawHeld,
          nextId, reservedFor, releaseLog, life>>

(* ------------------------------ bounds --------------------------------- *)

WordBits == 16

MaxLen == 3

NumVPages == 3

MaxNews == 2

MaxRaw == 2

(* ------------------------- program constants --------------------------- *)

PAGE == 4096

PAGE_MASK == 4095

UsizeMax == 2^WordBits - 1

IsizeMax == 2^(WordBits - 1) - 1

MAP_FAILED == UsizeMax

NULL == 0

Values == {0, 42}

ZST == [name |-> "ZST", size |-> 0, align |-> 1, userClone |-> FALSE]

I32 == [name |-> "i32", size |-> 4, align |-> 4, userClone |-> FALSE]

Half == [name |-> "Half", size |-> 2048, align |-> 2048, userClone |-> TRUE]

Over == [name |-> "Over", size |-> 8192, align |-> 8192, userClone |-> TRUE]

Buf == [name |-> "Buf", size |-> 10000, align |-> 1, userClone |-> FALSE]

Huge == [name |-> "Huge", size |-> 24576, align |-> 1, userClone |-> FALSE]

ElemTypes == {ZST, I32, Half, Over, Buf, Huge}

RawSizes == {0, 100, PAGE, PAGE + 1, 2 * PAGE}

(* ------------------------- machine arithmetic -------------------------- *)

RECURSIVE BitAnd(_, _)
BitAnd(a, b) ==
    IF a = 0 \/ b = 0 THEN 0
    ELSE (a % 2) * (b % 2) + 2 * BitAnd(a \div 2, b \div 2)

BitNot(a) == UsizeMax - a

WrappingAdd(a, b) == (a + b) % (UsizeMax + 1)

(* Layout::array::<T>(len): Err when len * size_of::<T>(), padded to the   *)
(* alignment, would exceed isize::MAX.                                     *)
LayoutArray(T, n) ==
    IF T.size # 0 /\ n > (IsizeMax + 1 - T.align) \div T.size
    THEN [err |-> TRUE, size |-> 0, align |-> T.align]
    ELSE [err |-> FALSE, size |-> T.size * n, align |-> T.align]

AlignUnsupported_TwoPages(layout) == layout.align > 2 * PAGE

AlignUnsupported(layout) == layout.align > PAGE

RoundUp_Down(n) == BitAnd(n, BitNot(PAGE_MASK))

RoundUp(n) == BitAnd(WrappingAdd(n, PAGE_MASK), BitNot(PAGE_MASK))

Clone(v) == v

(* ------------------------------ the OS --------------------------------- *)

VPages == 1..NumVPages

PagesOf(addr, size) ==
    {p \in 0..(UsizeMax \div PAGE) : addr <= p * PAGE /\ p * PAGE < addr + size}

(* mmap(NULL, size, RW, PRIVATE|ANONYMOUS, -1, 0): EINVAL for a zero        *)
(* length, otherwise any free range of the address space, or ENOMEM.       *)
MmapResults(size) ==
    {MAP_FAILED} \cup
    (IF size = 0 THEN {}
     ELSE {p * PAGE : p \in {q \in VPages :
                PagesOf(q * PAGE, size) \subseteq (VPages \ mapped)}})

MlockResults == {0, -1}

(* What the two calls leave behind in the process, whatever the caller     *)
(* makes of their return values.                                           *)
MappedAfterMmap(pages, size) ==
    IF pages = MAP_FAILED THEN mapped ELSE mapped \cup PagesOf(pages, size)

LockedAfterMlock(rc, pages, size) ==
    IF rc = 0 THEN locked \cup (PagesOf(pages, size) \cap VPages) ELSE locked

MmapFailed(pages) == pages = MAP_FAILED

MlockFailed_Ignored(rc) == FALSE

MlockFailed(rc) == rc # 0

Munmap(at, size, pageSet) == pageSet \ PagesOf(at, size)

MemAfterUnmap(at, size) ==
    [x \in {y \in DOMAIN mem : (y \div PAGE) \notin PagesOf(at, size)} |-> mem[x]]

(* --------------------------- UnixImpl ---------------------------------- *)

NoRet == [kind |-> "none", pages |-> NULL, size |-> 0, region |-> NULL, os |-> <<>>]

SizeAligned_EvenOnly(size) == BitAnd(size, PAGE_MASK - 1) = 0

SizeAligned(size) == BitAnd(size, PAGE_MASK) = 0

(* All outcomes of alloc_pages(size) in the current state: the returned    *)
(* Result, the OS calls made, and the mapped / locked page sets after it.  *)
AllocPages(size) ==
    IF ~SizeAligned(size)
    THEN {[ret |-> [kind |-> "AlignError", pages |-> NULL, size |-> size,
                    region |-> NULL, os |-> <<>>],
           mapd |-> mapped, lockd |-> locked]}
    ELSE UNION {
        IF MmapFailed(pages)
        THEN {[ret |-> [kind |-> "OsError", pages |-> NULL, size |-> size,
                        region |-> pages, os |-> <<"mmap">>],
               mapd |-> MappedAfterMmap(pages, size), lockd |-> locked]}
        ELSE {IF MlockFailed(rc)
              THEN [ret |-> [kind |-> "OsError", pages |-> NULL, size |-> size,
                             region |-> pages, os |-> <<"mmap", "mlock">>],
                    mapd |-> MappedAfterMmap(pages, size),
                    lockd |-> LockedAfterMlock(rc, pages, size)]
              ELSE [ret |-> [kind |-> "Ok", pages |-> pages, size |-> size,
                             region |-> pages, os |-> <<"mmap", "mlock">>],
                    mapd |-> MappedAfterMmap(pages, size),
                    lockd |-> LockedAfterMlock(rc, pages, size)]
              : rc \in MlockResults}
        : pages \in MmapResults(size)}

IsOk_UnlessAlign(r) == r.kind # "AlignError"

IsOk(r) == r.kind = "Ok"

(* ----------------------------- state ----------------------------------- *)

Ids == 1..MaxNews

NoFrame == [T |-> ZST, value |-> 0, len |-> 0, lsize |-> 0, size |-> 0,
            data |-> NULL, i |-> 0, id |-> 0, writes |-> <<>>, fail |-> ""]

NoRegion == <<NULL, 0>>

Init ==
    /\ pc = "idle"
    /\ frame = NoFrame
    /\ arrays = {}
    /\ mapped = {}
    /\ locked = {}
    /\ mem = <<>>
    /\ ret = NoRet
    /\ rawHeld = {}
    /\ nextId = 1
    /\ reservedFor = [id \in Ids |-> NoRegion]
    /\ releaseLog = [id \in Ids |-> <<>>]
    /\ life = [id \in Ids |-> "unused"]

SlotAddr(data, T, i) == data + i * T.size

(* deref: the len slots of a read from memory m; an anonymous mapping     *)
(* reads as zero where nothing was written.                                *)
Deref(m, a) == [k \in 1..a.len |->
                  IF SlotAddr(a.data, a.T, k - 1) \in DOMAIN m
                  THEN m[SlotAddr(a.data, a.T, k - 1)] ELSE 0]

InitDone_OffByOne(f) == f.i + 1 >= f.len

InitDone(f) == f.i = f.len

MemWrite(addr, v) ==
    [x \in DOMAIN mem \cup {addr} |-> IF x = addr THEN v ELSE mem[x]]

(* --------------------------- UnswapArray::new -------------------------- *)

(* Entry of new(value, len) up to the return of alloc_pages.               *)
NewCall(T, v, n) ==
    /\ pc = "idle"
    /\ nextId <= MaxNews
    /\ LET layout == LayoutArray(T, n)
           base == [NoFrame EXCEPT !.T = T, !.value = v, !.len = n]
       IN IF layout.err
          THEN /\ pc' = "panicked"
               /\ frame' = [base EXCEPT !.fail = "layout"]
               /\ UNCHANGED <<mapped, locked, ret>>
          ELSE IF AlignUnsupported(layout)
          THEN /\ pc' = "panicked"
               /\ frame' = [base EXCEPT !.lsize = layout.size, !.fail = "align"]
               /\ UNCHANGED <<mapped, locked, ret>>
          ELSE LET size == RoundUp(layout.size)
               IN \E o \in AllocPages(size) :
                    /\ pc' = "expect"
                    /\ frame' = [base EXCEPT !.lsize = layout.size, !.size = size]
                    /\ mapped' = o.mapd
                    /\ locked' = o.lockd
                    /\ ret' = o.ret
    /\ UNCHANGED <<arrays, mem, rawHeld, nextId, reservedFor, releaseLog, life>>

(* .expect("Failed to allocate locked memory pages")                       *)
NewExpect ==
    /\ pc = "expect"
    /\ IF IsOk(ret)
       THEN /\ pc' = "init"
            /\ frame' = [frame EXCEPT !.data = ret.pages, !.id = nextId]
            /\ nextId' = nextId + 1
            /\ reservedFor' = [reservedFor EXCEPT ![nextId] = <<ret.pages, frame.size>>]
            /\ life' = [life EXCEPT ![nextId] = "init"]
       ELSE /\ pc' = "panicked"
            /\ frame' = [frame EXCEPT !.fail = "expect"]
            /\ UNCHANGED <<nextId, reservedFor, life>>
    /\ UNCHANGED <<arrays, mapped, locked, mem, ret, rawHeld, releaseLog>>

(* One iteration of the initialisation loop: uninit.write(value.clone())   *)
InitWrite ==
    /\ pc = "init"
    /\ ~InitDone(frame)
    /\ mem' = MemWrite(SlotAddr(frame.data, frame.T, frame.i), Clone(frame.value))
    /\ frame' = [frame EXCEPT !.i = frame.i + 1,
                              !.writes = Append(frame.writes, frame.i)]
    /\ UNCHANGED <<pc, arrays, mapped, locked, ret, rawHeld,
                   nextId, reservedFor, releaseLog, life>>

(* value.clone() of a user-defined Clone unwinds                           *)
ClonePanic ==
    /\ pc = "init"
    /\ ~InitDone(frame)
    /\ frame.T.userClone
    /\ pc' = "panicked"
    /\ frame' = [frame EXCEPT !.fail = "clone"]
    /\ life' = [life EXCEPT ![frame.id] = "lost"]
    /\ UNCHANGED <<arrays, mapped, locked, mem, ret, rawHeld,
                   nextId, reservedFor, releaseLog>>

(* Self { data, len, size, _pd }                                           *)
NewReturn ==
    /\ pc = "init"
    /\ InitDone(frame)
    /\ arrays' = arrays \cup {[id |-> frame.id, data |-> frame.data,
                               len |-> frame.len, size |-> frame.size,
                               T |-> frame.T]}
    /\ life' = [life EXCEPT ![frame.id] = "live"]
    /\ pc' = "idle"
    /\ frame' = NoFrame
    /\ ret' = NoRet
    /\ UNCHANGED <<mapped, locked, mem, rawHeld, nextId, reservedFor, releaseLog>>

(* ----------------------------- Drop, Deref ----------------------------- *)

DropArgs_LenBytes(a) == <<a.data, a.len * a.T.size>>

DropArgs(a) == <<a.data, a.size>>

Drop(a) ==
    /\ pc \in {"idle", "panicked"}
    /\ a \in arrays
    /\ LET args == DropArgs(a)
       IN /\ mapped' = Munmap(args[1], args[2], mapped)
          /\ locked' = Munmap(args[1], args[2], locked)
          /\ mem' = MemAfterUnmap(args[1], args[2])
          /\ releaseLog' = [releaseLog EXCEPT ![a.id] = Append(@, args)]
    /\ arrays' = arrays \ {a}
    /\ life' = [life EXCEPT ![a.id] = "dropped"]
    /\ UNCHANGED <<pc, frame, ret, rawHeld, nextId, reservedFor>>

(* ---------------------- direct use of the OsImpl trait ----------------- *)

RawAlloc(size) ==
    /\ pc = "idle"
    /\ Cardinality(rawHeld) < MaxRaw
    /\ \E o \in AllocPages(size) :
         /\ mapped' = o.mapd
         /\ locked' = o.lockd
         /\ ret' = o.ret
    /\ pc' = "raw_ret"
    /\ UNCHANGED <<frame, arrays, mem, rawHeld, nextId, reservedFor, releaseLog, life>>

RawTake ==
    /\ pc = "raw_ret"
    /\ rawHeld' = IF IsOk(ret) THEN rawHeld \cup {<<ret.pages, ret.size>>} ELSE rawHeld
    /\ pc' = "idle"
    /\ ret' = NoRet
    /\ UNCHANGED <<frame, arrays, mapped, locked, mem, nextId, reservedFor, releaseLog, life>>

RawFree(r) ==
    /\ pc = "idle"
    /\ r \in rawHeld
    /\ mapped' = Munmap(r[1], r[2], mapped)
    /\ locked' = Munmap(r[1], r[2], locked)
    /\ mem' = MemAfterUnmap(r[1], r[2])
    /\ rawHeld' = rawHeld \ {r}
    /\ UNCHANGED <<pc, frame, arrays, ret, nextId, reservedFor, releaseLog, life>>

(* --------------------------- specification ----------------------------- *)

Next ==
    \/ \E T \in ElemTypes, v \in Values, n \in 0..MaxLen : NewCall(T, v, n)
    \/ NewExpect
    \/ InitWrite
    \/ ClonePanic
    \/ NewReturn
    \/ \E a \in arrays : Drop(a)

Spec == Init /\ [][Next]_vars

(* The page provider on its own, driven through the OsImpl trait.          *)
NextRaw ==
    \/ \E s \in RawSizes : RawAlloc(s)
    \/ RawTake
    \/ \E r \in rawHeld : RawFree(r)

SpecRaw == Init /\ [][NextRaw]_vars

TypeOK ==
    /\ pc \in {"idle", "expect", "init", "panicked", "raw_ret"}
    /\ mapped \subseteq VPages
    /\ locked \subseteq mapped
    /\ nextId \in 1..(MaxNews + 1)

(* ------------------------------ claims --------------------------------- *)

(* C1: in every state where alloc_pages has returned Err(OsError) after a   *)
(* successful mmap, the region that call mapped is no longer mapped.       *)
C1_PinFailureUnmaps ==
    (ret.kind = "OsError" /\ ret.region # MAP_FAILED)
        => PagesOf(ret.region, ret.size) \cap mapped = {}

C3_ZeroSizeIsAlignError ==
    (ret.kind # "none" /\ ret.size = 0)
        => (ret.kind = "AlignError" /\ ret.os = <<>>)

(* C4: when alloc_pages returned an error to new, new panics: it never     *)
(* reaches the initialisation, never returns, and no container is          *)
(* produced then or afterwards.                                            *)
C4_ReserveFailureIsFatal ==
    [][/\ (pc = "expect" /\ ret.kind # "Ok")
            => (pc' = "panicked" /\ arrays' = arrays /\ nextId' = nextId)
       /\ pc = "panicked"
            => (pc' = "panicked" /\ arrays' \subseteq arrays)]_vars

C4_Witness ==
    /\ pc = "panicked"
    /\ frame.fail = "expect"
    /\ ret.kind = "OsError"
    /\ ret.os = <<"mmap", "mlock">>

(* C5: a dropped container has had free_pages called exactly once, with    *)
(* the address and rounded size its construction reserved; a container     *)
(* that was not dropped has had no free_pages call; a live container       *)
(* still records exactly the pair it reserved.                             *)
C5_ReleasedExactlyOnce ==
    \A id \in Ids :
        /\ life[id] = "dropped" => releaseLog[id] = <<reservedFor[id]>>
        /\ life[id] # "dropped" => releaseLog[id] = <<>>
        /\ life[id] = "live" =>
              \E a \in arrays : a.id = id /\ <<a.data, a.size>> = reservedFor[id]
        /\ Cardinality({a \in arrays : a.id = id}) <= 1

C5_Witness ==
    /\ \A id \in 1..2 : life[id] = "dropped"
    /\ reservedFor[1][2] = 2 * PAGE
    /\ reservedFor[2][1] = reservedFor[1][1]
    /\ mapped = {}

(* C6: the size new passes to alloc_pages is the smallest multiple of 4096 *)
(* that is >= len * size_of(T), computed without wrap-around.              *)
C6_RoundedSizeIsSmallestCover ==
    /\ (pc \in {"expect", "init"} \/ (pc = "panicked" /\ frame.fail \in {"expect", "clone"}))
          => /\ frame.lsize = frame.len * frame.T.size
             /\ frame.lsize + PAGE_MASK <= UsizeMax
             /\ frame.size % PAGE = 0
             /\ frame.len * frame.T.size <= frame.size
             /\ frame.size <= frame.len * frame.T.size + PAGE - 1
             /\ (pc = "expect" => ret.size = frame.size)
    /\ \A a \in arrays :
          /\ a.size % PAGE = 0
          /\ a.len * a.T.size <= a.size
          /\ a.size <= a.len * a.T.size + PAGE - 1

C6_Witness ==
    /\ pc = "expect"
    /\ frame.lsize > IsizeMax - PAGE
    /\ frame.lsize % PAGE # 0
    /\ frame.size = IsizeMax + 1
    /\ \E a \in arrays : a.len * a.T.size = a.size

(* C7: when new returns, the container it returns has a view of length len *)
(* (> 0) whose every element equals the prototype, and the slots were      *)
(* written once each in increasing index order.                            *)
C7_ConstructFillsWithPrototype ==
    [][(pc = "init" /\ pc' = "idle")
          => \E a \in arrays' \ arrays :
                /\ frame.len > 0
                /\ a.len = frame.len
                /\ DOMAIN Deref(mem', a) = 1..frame.len
                /\ \A k \in 1..frame.len : Deref(mem', a)[k] = frame.value
                /\ frame.writes = [k \in 1..frame.len |-> k - 1]]_vars

C7_Witness ==
    /\ pc = "idle"
    /\ \E a \in arrays :
          /\ a.len = 3
          /\ a.size = 2 * PAGE
          /\ \A k \in 1..3 : Deref(mem, a)[k] = 42

(* C8: the region of every live container has a length that is a positive *)
(* multiple of 4096 and consists of pages that are mapped and pinned, and  *)
(* belong to no other live container; a construct with len * size_of(T) = 0*)
(* never gets a region.                                                    *)
C8_LiveRegionMappedAndPinned ==
    /\ \A a \in arrays :
          /\ a.size > 0
          /\ a.size % PAGE = 0
          /\ a.data # NULL
          /\ PagesOf(a.data, a.size) # {}
          /\ PagesOf(a.data, a.size) \subseteq mapped \cap locked
          /\ \A b \in arrays \ {a} :
                PagesOf(a.data, a.size) \cap PagesOf(b.data, b.size) = {}
    /\ (pc = "init" => frame.len * frame.T.size > 0)
    /\ \A a \in arrays : a.len * a.T.size > 0

C8_Witness ==
    /\ \E a \in arrays : a.size = 2 * PAGE
    /\ Cardinality(arrays) = 1
    /\ pc = "panicked"
    /\ frame.len = 0
    /\ frame.fail = "expect"

(* C9: new for an element type whose alignment exceeds 4096 panics before  *)
(* alloc_pages is called: nothing is mapped or pinned, no container made.  *)
C9_OverAlignedFailsFast ==
    [][(pc = "idle" /\ pc' # "idle" /\ frame'.T.align > PAGE)
          => /\ pc' = "panicked"
             /\ ret' = ret
             /\ mapped' = mapped
             /\ locked' = locked
             /\ arrays' = arrays]_vars

C9_Witness ==
    /\ pc = "panicked"
    /\ frame.fail = "align"
    /\ frame.T.align > PAGE
    /\ frame.len > 0

(* C10: every region new obtained from alloc_pages is owned by a live      *)
(* container or by the new still running, or has been released.            *)
C10_ReservedRegionAlwaysReleased ==
    \A id \in Ids :
        reservedFor[id] # NoRegion
            => \/ \E a \in arrays : a.id = id
               \/ (pc = "init" /\ frame.id = id)
               \/ releaseLog[id] = <<reservedFor[id]>>

====
